---- MODULE Spec2Model ----
(***************************************************************************)
(* Apriori frequent-itemset mining as a sequence of MapReduce jobs         *)
(* (Level3-Question13): the driver loop of main.py, the Support Counter    *)
(* (itemset_support_counter.py), the local 2-Candidate Generator and file  *)
(* consolidation (apriori_core.py) and the three-stage Candidate Generator *)
(* (candidate_generator.py).                                               *)
(*                                                                         *)
(* Items are the integers 1..NumItems; their numeric order stands for the  *)
(* lexicographic order of the item strings.  An itemset string             *)
(* ("a b c") is the sequence of its items, a frozenset is a set.  A file   *)
(* written by a MapReduce job is the bag of its lines (the order of the    *)
(* lines of a part file, and the split into part files, are the runtime's  *)
(* choice).                                                                *)
(***************************************************************************)
EXTENDS Integers, Sequences, FiniteSets, Bags

\* ---------------------------------------------------------------- bounds
NumItems == 5
MaxMinSup == 2
MaxTx == 2
MaxIterArg == 2
MaxRecords == 5
MaxCandidateLines == 2
PBits == 2
MaxF1Records == 3
MaxGroupValues == 4
MaxCombinerLines == 3

\* ------------------------------------------------------ program constants
DEFAULT_MIN_SUPPORT == 1
UNEXISTED_SUPPORT == -1
DEFAULT_MAX_ITERATIONS == 100

Items == 1..NumItems

\* --------------------------------------------------------------- helpers
\* sum(values) over a sequence of integers
RECURSIVE SumSeq(_)
SumSeq(s) == IF s = <<>> THEN 0 ELSE Head(s) + SumSeq(Tail(s))

\* the set of elements of a sequence
Range(s) == {s[i] : i \in DOMAIN s}

\* sorted(frozenset): the items of a set in ascending order
RECURSIVE SortSet(_)
SortSet(S) ==
  IF S = {} THEN <<>>
  ELSE LET m == CHOOSE x \in S : \A y \in S : x <= y
       IN  <<m>> \o SortSet(S \ {m})

\* sorted(list): the items of a list in ascending order, repetitions kept
RECURSIVE SortedList(_)
SortedList(s) ==
  IF s = <<>> THEN <<>>
  ELSE LET i == CHOOSE j \in DOMAIN s : \A l \in DOMAIN s : s[j] <= s[l]
           rest == [j \in 1..(Len(s) - 1) |-> IF j < i THEN s[j] ELSE s[j + 1]]
       IN  <<s[i]>> \o SortedList(rest)

\* the lines of a list as a bag
RECURSIVE SeqToBag(_)
SeqToBag(s) ==
  IF s = <<>> THEN EmptyBag ELSE SetToBag({Head(s)}) (+) SeqToBag(Tail(s))

\* one enumeration of a bag as a list
RECURSIVE BagToSeq(_)
BagToSeq(B) ==
  IF BagToSet(B) = {} THEN <<>>
  ELSE LET e == CHOOSE x \in BagToSet(B) : TRUE
       IN  <<e>> \o BagToSeq(B (-) SetToBag({e}))

\* one enumeration of a finite set as a list
RECURSIVE SetToSeq(_)
SetToSeq(S) ==
  IF S = {} THEN <<>>
  ELSE LET e == CHOOSE x \in S : TRUE
       IN  <<e>> \o SetToSeq(S \ {e})

\* the bag sum of a list of bags
RECURSIVE BagSumSeq(_)
BagSumSeq(s) ==
  IF s = <<>> THEN EmptyBag ELSE Head(s) (+) BagSumSeq(Tail(s))

\* a variant that pairs only neighbours of the list
Pairs_of_neighbours(s) == [i \in 1..(Len(s) - 1) |-> <<s[i], s[i + 1]>>]

\* itertools.combinations(sorted_list, 2), in the order Python yields them
RECURSIVE Pairs(_)
Pairs(s) ==
  IF Len(s) < 2 THEN <<>>
  ELSE [i \in 1..(Len(s) - 1) |-> <<s[1], s[i + 1]>>] \o Pairs(Tail(s))

\* the subsets of S with n elements
SubsetsOfSize(S, n) == {T \in SUBSET S : Cardinality(T) = n}

\* str.isdigit() of a support field: a field such as "-1" is not all digits
IsDigit(support) == support >= 0

\* ------------------------------------------- itemset string conversions
\* a variant that joins the items in descending order
itemset_to_string_descending(itemset) ==
  LET up == SortSet(itemset)
  IN  [i \in DOMAIN up |-> up[Len(up) + 1 - i]]

\* itemset_to_string: the sorted items joined by the separator
itemset_to_string(itemset) == SortSet(itemset)

\* string_to_itemset: the frozenset of the items of an itemset string
string_to_itemset(itemset_str) == Range(itemset_str)

\* itemset_to_string(itemset, INTERNAL_ITEMSET_SEPARATOR): the Support
\* Counter's shuffle key, the sorted items joined by commas
internal_key(itemset) == [sep |-> ",", items |-> itemset_to_string(itemset)]

\* change_itemset_separator: a comma-joined key re-joined by spaces
change_itemset_separator(key) == key.items

\* reorder_items: the items of the string, sorted
reorder_items(itemset_str) == SortedList(itemset_str)

\* split_ordered_itemset with postfix_size = 1: <<prefix, postfix>>
split_ordered_itemset(itemset_str) ==
  IF Len(itemset_str) <= 1 THEN << <<>>, itemset_str >>
  ELSE << SubSeq(itemset_str, 1, Len(itemset_str) - 1),
          SubSeq(itemset_str, Len(itemset_str), Len(itemset_str)) >>

\* the lexicographic order of two itemset strings (Python's str order)
RECURSIVE StrLeq(_, _)
StrLeq(a, b) ==
  IF a = <<>> THEN TRUE
  ELSE IF b = <<>> THEN FALSE
  ELSE IF Head(a) # Head(b) THEN Head(a) < Head(b)
  ELSE StrLeq(Tail(a), Tail(b))

\* sorted(keys) of a set of itemset strings
RECURSIVE SortStrings(_)
SortStrings(S) ==
  IF S = {} THEN <<>>
  ELSE LET m == CHOOSE x \in S : \A y \in S : StrLeq(x, y)
       IN  <<m>> \o SortStrings(S \ {m})

\* ------------------------------------------------------------------ files
\* A file: whether it exists, and the bag of its non-empty lines.
NoFile == [exists |-> FALSE, lines |-> EmptyBag]
FileOf(lines) == [exists |-> TRUE, lines |-> lines]

\* a variant that finds no file empty
is_empty_file_never(file) == FALSE

\* is_empty_file: the file exists and has size 0
is_empty_file(file) == file.exists /\ file.lines = EmptyBag

\* a directory: file name (here the level in the name) -> file
PutFile(dir, name, file) ==
  [n \in DOMAIN dir \cup {name} |-> IF n = name THEN file ELSE dir[n]]
GetFile(dir, name) == IF name \in DOMAIN dir THEN dir[name] ELSE NoFile

\* ------------------------------------------------- the MapReduce runtime
\* the concatenation of a list of lists
RECURSIVE Flatten(_)
Flatten(ss) == IF ss = <<>> THEN <<>> ELSE Head(ss) \o Flatten(Tail(ss))

\* the keys of a list of emitted <<key, value>> pairs
KeysOf(emits) == {emits[i][1] : i \in DOMAIN emits}

\* the values emitted under one key, in the order of emission
ValuesOf(emits, key) ==
  LET hit == SelectSeq(emits, LAMBDA e : e[1] = key)
  IN  [i \in DOMAIN hit |-> hit[i][2]]

\* the shuffle before a reduce phase: the emitted pairs grouped by key,
\* <<key, values>>; every group goes to exactly one reducer call
Shuffle(emits) ==
  LET keys == SetToSeq(KeysOf(emits))
  IN  [i \in DOMAIN keys |-> << keys[i], ValuesOf(emits, keys[i]) >>]

\* ------------------------------------------------------- Support Counter
\* load_itemsets_from_file: the frozensets of the non-empty lines; a file
\* that cannot be opened gives the empty list
load_itemsets_from_file(file) ==
  IF ~file.exists THEN <<>>
  ELSE LET lines == BagToSeq(file.lines)
           sets == [i \in DOMAIN lines |-> string_to_itemset(lines[i])]
       IN  SelectSeq(sets, LAMBDA itemset : itemset # {})

\* a mapper_init that scans for candidates only when some were loaded
sc_init_falls_back_to_singletons(options) ==
  LET loaded == Flatten([i \in DOMAIN options.itemset_files |->
                           load_itemsets_from_file(options.itemset_files[i])])
  IN  [minimum_support |->
         IF options.min_support # 0 THEN options.min_support ELSE DEFAULT_MIN_SUPPORT,
       scanning_specific_itemsets |-> loaded # <<>>,
       interested_itemsets |-> loaded]

\* mapper_init / reducer_init: the task's configuration from the options
\* [min_support, itemset_files]
sc_init(options) ==
  [minimum_support |->
     IF options.min_support # 0 THEN options.min_support ELSE DEFAULT_MIN_SUPPORT,
   scanning_specific_itemsets |-> options.itemset_files # <<>>,
   interested_itemsets |->
     Flatten([i \in DOMAIN options.itemset_files |->
                load_itemsets_from_file(options.itemset_files[i])])]

\* mapper: the <<key, count>> pairs of one transaction line
\* [nfields, itemset]
sc_mapper(task, line) ==
  IF line.nfields # 2 THEN <<>>
  ELSE LET items == string_to_itemset(line.itemset)
       IN  IF task.scanning_specific_itemsets
           THEN [i \in DOMAIN task.interested_itemsets |->
                   << internal_key(task.interested_itemsets[i]),
                      IF task.interested_itemsets[i] \subseteq items THEN 1 ELSE 0 >>]
           ELSE LET each == SetToSeq(items)
                IN  [i \in DOMAIN each |-> << <<each[i]>>, 1 >>]

\* a combiner that counts the values it is handed
sc_combiner_counting_values(key, values) == << <<key, Len(values)>> >>

\* combiner: the sum of a key's counts within a map task
sc_combiner(key, values) == << <<key, SumSeq(values)>> >>

\* a variant that emits every total, whatever the minimum support
sc_reducer_no_threshold(task, key, values) ==
  << [itemset |-> IF task.scanning_specific_itemsets
                  THEN change_itemset_separator(key) ELSE key,
      support |-> SumSeq(values)] >>

\* reducer: the total of a key, emitted when it reaches the minimum support
sc_reducer(task, key, values) ==
  LET total_count == SumSeq(values)
  IN  IF task.scanning_specific_itemsets
      THEN IF total_count >= task.minimum_support
           THEN << [itemset |-> change_itemset_separator(key), support |-> total_count] >>
           ELSE <<>>
      ELSE IF total_count >= task.minimum_support
           THEN << [itemset |-> key, support |-> total_count] >>
           ELSE <<>>

\* the job: the bag of "itemset<TAB>support" lines it writes
ItemsetSupportCounter(lines, options) ==
  LET task == sc_init(options)
      mapped == Shuffle(Flatten([i \in DOMAIN lines |-> sc_mapper(task, lines[i])]))
      combined == Shuffle(Flatten([g \in DOMAIN mapped |->
                                     sc_combiner(mapped[g][1], mapped[g][2])]))
  IN  SeqToBag(Flatten([g \in DOMAIN combined |->
                          sc_reducer(task, combined[g][1], combined[g][2])]))

\* --------------------------------------------------- Candidate Generator
\* A frequent-itemset line is [itemset, support]; a stage-1/2 value
\* "candidate:support" is [cand, sup], cand = <<>> for a self-probe.

\* prefix_mapper: <<prefix, [postfix, support]>> of one frequent-itemset
\* line, nothing for a line whose support is not all digits
prefix_mapper(line) ==
  IF ~IsDigit(line.support) THEN <<>>
  ELSE LET ordered_itemset_str == reorder_items(line.itemset)
           split == split_ordered_itemset(ordered_itemset_str)
       IN  << << split[1], [postfix |-> split[2], support |-> line.support] >> >>

\* the probes of the postfix pair number n of a prefix with two or more
\* items: sub_prefix_combinations is one iterator, created before the loop
\* over the pairs, so the first pair consumes it and later pairs get none
SubsetProbes(prefix, prefix_items, pairs, n) ==
  LET sub_prefixes ==
        IF n = 1
        THEN SetToSeq(SubsetsOfSize(prefix_items, Cardinality(prefix_items) - 1))
        ELSE <<>>
      candidate == prefix \o pairs[n]
  IN  [j \in DOMAIN sub_prefixes |->
         << itemset_to_string(sub_prefixes[j]) \o pairs[n],
            [cand |-> candidate, sup |-> UNEXISTED_SUPPORT] >>]

\* checking_subsets_generating_reducer: the self-probes of the group's
\* itemsets, then the subset probes of the candidates joined on the prefix
checking_subsets_generating_reducer(prefix, postfix_support_pairs) ==
  LET self_probes ==
        [i \in DOMAIN postfix_support_pairs |->
           << prefix \o postfix_support_pairs[i].postfix,
              [cand |-> <<>>, sup |-> postfix_support_pairs[i].support] >>]
      prefix_items == string_to_itemset(prefix)
      postfix_items ==
        SortStrings({postfix_support_pairs[i].postfix : i \in DOMAIN postfix_support_pairs})
      each_pair == Pairs(postfix_items)
      pairs == [n \in DOMAIN each_pair |-> each_pair[n][1] \o each_pair[n][2]]
  IN  IF Cardinality(prefix_items) = 0 \/ Len(postfix_items) < 2
      THEN self_probes
      ELSE IF Cardinality(prefix_items) = 1
      THEN self_probes \o
           [n \in DOMAIN pairs |->
              << pairs[n],
                 [cand |-> prefix \o pairs[n], sup |-> UNEXISTED_SUPPORT] >>]
      ELSE self_probes \o
           Flatten([n \in DOMAIN pairs |-> SubsetProbes(prefix, prefix_items, pairs, n)])

\* the support of the last value of the group that is not UNEXISTED_SUPPORT
RECURSIVE original_subset_support(_)
original_subset_support(values) ==
  IF values = <<>> THEN UNEXISTED_SUPPORT
  ELSE LET last == values[Len(values)]
       IN  IF last.sup # UNEXISTED_SUPPORT THEN last.sup
           ELSE original_subset_support(SubSeq(values, 1, Len(values) - 1))

\* a reducer that answers each candidate probe as it arrives, from the
\* values that arrived before it
subset_validating_reducer_streaming(candidate_subset, candidates_with_support) ==
  LET positions == SelectSeq([p \in DOMAIN candidates_with_support |-> p],
                             LAMBDA p : candidates_with_support[p].cand # <<>>)
  IN  [i \in DOMAIN positions |->
         << candidates_with_support[positions[i]].cand,
            original_subset_support(SubSeq(candidates_with_support, 1, positions[i])) >>]

\* subset_validating_reducer: every candidate probing this subset gets the
\* subset's support, or UNEXISTED_SUPPORT when no self-probe came
subset_validating_reducer(candidate_subset, candidates_with_support) ==
  LET candidates == SelectSeq(candidates_with_support, LAMBDA v : v.cand # <<>>)
  IN  [i \in DOMAIN candidates |->
         << candidates[i].cand, original_subset_support(candidates_with_support) >>]

\* a variant that keeps every candidate it is handed
candidate_pruning_reducer_never_prunes(candidate, supports) == <<candidate>>

\* a variant that writes a kept candidate once per verdict it received
candidate_pruning_reducer_per_verdict(candidate, supports) ==
  IF \E i \in DOMAIN supports : supports[i] = UNEXISTED_SUPPORT THEN <<>>
  ELSE [i \in DOMAIN supports |-> candidate]

\* candidate_pruning_reducer: the candidate, unless a required subset is
\* missing
candidate_pruning_reducer(candidate, supports) ==
  LET is_pruned == Len(supports) = 0
                   \/ \E i \in DOMAIN supports : supports[i] = UNEXISTED_SUPPORT
  IN  IF ~is_pruned THEN <<candidate>> ELSE <<>>

\* the three steps of the job on the lines of its input file
Stage1(lines) ==
  LET groups == Shuffle(Flatten([i \in DOMAIN lines |-> prefix_mapper(lines[i])]))
  IN  Flatten([g \in DOMAIN groups |->
                 checking_subsets_generating_reducer(groups[g][1], groups[g][2])])
Stage2(probes) ==
  LET groups == Shuffle(probes)
  IN  Flatten([g \in DOMAIN groups |->
                 subset_validating_reducer(groups[g][1], groups[g][2])])
Stage3(verdicts) ==
  LET groups == Shuffle(verdicts)
  IN  Flatten([g \in DOMAIN groups |->
                 candidate_pruning_reducer(groups[g][1], groups[g][2])])

\* the job: the bag of candidate lines it writes
CandidateGenerator(lines) == SeqToBag(Stage3(Stage2(Stage1(lines))))

\* ------------------------------------------------ 2-Candidate Generator
\* extract_itemsets_and_supports: <<itemset string, support>> of each
\* line, the support read as 0 when it is not all digits
extract_itemsets_and_supports(lines) ==
  [i \in DOMAIN lines |->
     << lines[i].itemset,
        IF IsDigit(lines[i].support) THEN lines[i].support ELSE 0 >>]

\* the loop filling frequent_one_itemsets: [ok, dict]; ok is FALSE when an
\* item already has a different (non-zero) support
RECURSIVE FillOneItemsets(_, _)
FillOneItemsets(pairs, dict) ==
  IF pairs = <<>> THEN [ok |-> TRUE, dict |-> dict]
  ELSE LET item == Head(pairs)[1]
           support == Head(pairs)[2]
       IN  IF item \in DOMAIN dict /\ dict[item] # 0 /\ dict[item] # support
           THEN [ok |-> FALSE, dict |-> dict]
           ELSE FillOneItemsets(Tail(pairs),
                  [x \in DOMAIN dict \cup {item} |->
                     IF x = item THEN support ELSE dict[x]])

\* generate_candidate_2_itemsets on the line lists of its input files:
\* [ok, lines, candidates_generated]; lines is what it writes to C_2
generate_candidate_2_itemsets(inputs) ==
  LET filled == FillOneItemsets(
                  Flatten([i \in DOMAIN inputs |->
                             extract_itemsets_and_supports(inputs[i])]), <<>>)
      sorted_frequent_one_itemsets == SortStrings(DOMAIN filled.dict)
      each_pair == Pairs(sorted_frequent_one_itemsets)
      lines == [n \in DOMAIN each_pair |-> each_pair[n][1] \o each_pair[n][2]]
  IN  IF inputs # <<>> /\ filled.ok
      THEN [ok |-> TRUE, lines |-> lines, candidates_generated |-> Len(lines)]
      ELSE [ok |-> FALSE, lines |-> <<>>, candidates_generated |-> 0]

\* ------------------------------------------------------ file consolidation
\* the decimal digits of a level, as they stand in a file name
RECURSIVE Digits(_)
Digits(n) == IF n < 10 THEN <<n>> ELSE Digits(n \div 10) \o <<n % 10>>

\* a naming that gives every level the file of level 1
LevelFileName_one_for_all(level) == Digits(1)

\* "<prefix>_<level>.txt" and "<prefix>.txt": what of the name follows the
\* common prefix decides the order of sorted(part_files); "." sorts before
\* "_" and before every digit
LevelFileName(level) == Digits(level)
FinalFileName == <<>>

\* a parts directory holding the output of one job
PartsOf(lines) == PutFile(<<>>, <<0>>, FileOf(lines))

\* a variant that reads the files in descending file-name order
combine_parts_descending(dir, output_file) ==
  LET up == SortStrings(DOMAIN dir)
      part_files == [i \in DOMAIN up |-> up[Len(up) + 1 - i]]
      blocks == [i \in DOMAIN part_files |->
                   IF part_files[i] = output_file THEN EmptyBag
                   ELSE dir[part_files[i]].lines]
  IN  SelectSeq(blocks, LAMBDA b : b # EmptyBag)

\* combine_parts: the lines of the directory's files in sorted file-name
\* order, one block per file that has lines; the output file, opened for
\* writing before the parts are read, gives none
combine_parts(dir, output_file) ==
  LET part_files == SortStrings(DOMAIN dir)
      blocks == [i \in DOMAIN part_files |->
                   IF part_files[i] = output_file THEN EmptyBag
                   ELSE dir[part_files[i]].lines]
  IN  SelectSeq(blocks, LAMBDA b : b # EmptyBag)

\* ------------------------------------------------------------- the driver
VARIABLES
  db,                 \* the lines of the transaction files
  min_support_count,  \* frequent_itemsets_mining's min_support_count
  max_iterations,     \* frequent_itemsets_mining's max_iterations
  current_level,
  current_iteration,
  pc,                 \* the step of frequent_itemsets_mining to run next
  fi_dir,             \* frequent-itemsets/: file name -> file
  fi_parts,           \* frequent-itemsets/_parts_<k>: level -> directory
  ci_dir,             \* candidate-itemsets/: file name -> file
  ci_parts,           \* candidate-itemsets/_parts_<k>: level -> directory
  final_file,         \* frequent-itemsets/frequent_itemsets.txt: the blocks
                      \* of lines it was written from, in order
  job_log,            \* the jobs started so far, in order
  job                 \* a job run on its own: its input, the step it is at
                      \* and what its steps wrote

vars == << db, min_support_count, max_iterations, current_level,
           current_iteration, pc, fi_dir, fi_parts, ci_dir, ci_parts,
           final_file, job_log, job >>

\* no job is run on its own
NoJob == [kind |-> "none"]

fi_file(level) == GetFile(fi_dir, LevelFileName(level))
ci_file(level) == GetFile(ci_dir, LevelFileName(level))

\* the transaction lines the runs are started on: every multiset of at
\* most MaxTx well-formed lines, a line holding one item or all but at most
\* one of the items
TxPool ==
  SetToSeq({SortSet(S) : S \in {T \in (SUBSET Items) \ {{}} :
                                  \/ Cardinality(T) = 1
                                  \/ Cardinality(T) >= NumItems - 1}})
Databases ==
  UNION { { [i \in 1..n |-> [nfields |-> 2, itemset |-> TxPool[ix[i]]]] :
            ix \in {f \in [1..n -> DOMAIN TxPool] :
                      \A i \in 1..(n - 1) : f[i] <= f[i + 1]} } :
          n \in 0..MaxTx }

\* the minimum supports a run is started with: --min-support given as a
\* negative number, or as 1, 2, ...
MinSupports == {-1} \cup (1..MaxMinSup)

Init ==
  /\ db \in Databases
  /\ min_support_count \in MinSupports
  /\ max_iterations \in (1..MaxIterArg) \cup {DEFAULT_MAX_ITERATIONS}
  /\ current_level = 1
  /\ current_iteration = 0
  /\ pc = "count"
  /\ fi_dir = <<>>
  /\ fi_parts = <<>>
  /\ ci_dir = <<>>
  /\ ci_parts = <<>>
  /\ final_file = [exists |-> FALSE, blocks |-> <<>>]
  /\ job_log = <<>>
  /\ job = NoJob

\* a variant that never hands the job a candidate file
CounterOptions_no_candidates(level) ==
  [min_support |-> min_support_count, itemset_files |-> <<>>]

\* find_frequent_itemsets' arguments for the job of a level
CounterOptions(level) ==
  [min_support |-> min_support_count,
   itemset_files |-> IF level > 1 THEN <<ci_file(level)>> ELSE <<>>]

\* a loop that goes on to the next step after a failed job
after_job_ignoring_failure(success, next_step) == next_step

\* the loop after a job step: the next step, or the return when the step
\* reports a failure
after_job(success, next_step) == IF success THEN next_step ELSE "aborted"

\* _step_execute_frequent_itemsets_phase, the job succeeding
ExecuteFrequentItemsetsPhase ==
  /\ pc = "count"
  /\ current_level >= 1 /\ min_support_count >= 1
  /\ fi_parts' = PutFile(fi_parts, current_level,
                   PartsOf(ItemsetSupportCounter(db, CounterOptions(current_level))))
  /\ job_log' = Append(job_log, <<"count", current_level>>)
  /\ pc' = after_job(TRUE, "process_frequent")
  /\ UNCHANGED << job, db, min_support_count, max_iterations, current_level,
                  current_iteration, fi_dir, ci_dir, ci_parts, final_file >>

\* _step_execute_frequent_itemsets_phase, the job failing: the parts
\* directory was refreshed, the run returns
FrequentItemsetsPhaseFails ==
  /\ pc = "count"
  /\ fi_parts' = PutFile(fi_parts, current_level, <<>>)
  /\ job_log' = Append(job_log, <<"count", current_level>>)
  /\ pc' = after_job(FALSE, "process_frequent")
  /\ UNCHANGED << job, db, min_support_count, max_iterations, current_level,
                  current_iteration, fi_dir, ci_dir, ci_parts, final_file >>

\* _step_process_frequent_itemsets_results: the parts combined into F_k
ProcessFrequentItemsetsResults ==
  /\ pc = "process_frequent"
  /\ fi_dir' = PutFile(fi_dir, LevelFileName(current_level),
                 FileOf(BagSumSeq(combine_parts(fi_parts[current_level], <<>>))))
  /\ pc' = "check_termination"
  /\ UNCHANGED << job, db, min_support_count, max_iterations, current_level,
                  current_iteration, fi_parts, ci_dir, ci_parts, final_file,
                  job_log >>

\* _step_check_termination
CheckTermination ==
  /\ pc = "check_termination"
  /\ pc' = IF is_empty_file(fi_file(current_level)) THEN "finalize" ELSE "generate"
  /\ UNCHANGED << job, db, min_support_count, max_iterations, current_level,
                  current_iteration, fi_dir, fi_parts, ci_dir, ci_parts,
                  final_file, job_log >>

\* _step_execute_2_itemsets_generation
Execute2ItemsetsGeneration ==
  /\ pc = "generate" /\ current_level = 1
  /\ LET made == IF fi_file(1).exists
                 THEN generate_candidate_2_itemsets(<< BagToSeq(fi_file(1).lines) >>)
                 ELSE [ok |-> FALSE, lines |-> <<>>, candidates_generated |-> 0]
     IN  /\ ci_dir' = IF made.ok
                      THEN PutFile(ci_dir, LevelFileName(2), FileOf(SeqToBag(made.lines)))
                      ELSE ci_dir
         /\ pc' = after_job(made.ok, "process_candidates")
  /\ job_log' = Append(job_log, <<"generate", 2>>)
  /\ UNCHANGED << job, db, min_support_count, max_iterations, current_level,
                  current_iteration, fi_dir, fi_parts, ci_parts, final_file >>

\* _step_execute_higher_level_generation, the job succeeding: the job,
\* then its parts combined into C_{k+1}
ExecuteHigherLevelGeneration ==
  /\ pc = "generate" /\ current_level > 1
  /\ LET parts == PartsOf(CandidateGenerator(BagToSeq(fi_file(current_level).lines)))
     IN  /\ ci_parts' = PutFile(ci_parts, current_level + 1, parts)
         /\ ci_dir' = PutFile(ci_dir, LevelFileName(current_level + 1),
                        FileOf(BagSumSeq(combine_parts(parts, <<>>))))
  /\ job_log' = Append(job_log, <<"generate", current_level + 1>>)
  /\ pc' = after_job(TRUE, "process_candidates")
  /\ UNCHANGED << job, db, min_support_count, max_iterations, current_level,
                  current_iteration, fi_dir, fi_parts, final_file >>

\* _step_execute_higher_level_generation, the job failing
HigherLevelGenerationFails ==
  /\ pc = "generate" /\ current_level > 1
  /\ ci_parts' = PutFile(ci_parts, current_level + 1, <<>>)
  /\ job_log' = Append(job_log, <<"generate", current_level + 1>>)
  /\ pc' = after_job(FALSE, "process_candidates")
  /\ UNCHANGED << job, db, min_support_count, max_iterations, current_level,
                  current_iteration, fi_dir, fi_parts, ci_dir, final_file >>

\* _step_process_candidate_results
ProcessCandidateResults ==
  /\ pc = "process_candidates"
  /\ pc' = IF is_empty_file(ci_file(current_level + 1)) THEN "finalize" ELSE "advance"
  /\ UNCHANGED << job, db, min_support_count, max_iterations, current_level,
                  current_iteration, fi_dir, fi_parts, ci_dir, ci_parts,
                  final_file, job_log >>

\* a loop test that lets one more iteration in
loop_continues_one_more(iteration, cap) == iteration <= cap

\* the loop's test
loop_continues(iteration, cap) == iteration < cap

\* an advance that skips a level
next_level_skipping_one(level) == level + 2

\* the level after a level
next_level(level) == level + 1

\* _step_advance_iteration, then the loop's test
AdvanceIteration ==
  /\ pc = "advance"
  /\ current_level' = next_level(current_level)
  /\ current_iteration' = current_iteration + 1
  /\ pc' = IF loop_continues(current_iteration + 1, max_iterations)
           THEN "count" ELSE "finalize"
  /\ UNCHANGED << job, db, min_support_count, max_iterations, fi_dir, fi_parts,
                  ci_dir, ci_parts, final_file, job_log >>

\* _step_finalize_results: the files of frequent-itemsets/ combined
FinalizeResults ==
  /\ pc = "finalize"
  /\ final_file' = [exists |-> TRUE, blocks |-> combine_parts(fi_dir, FinalFileName)]
  /\ pc' = "done"
  /\ UNCHANGED << job, db, min_support_count, max_iterations, current_level,
                  current_iteration, fi_dir, fi_parts, ci_dir, ci_parts, job_log >>

\* main: the status the process ends with once frequent_itemsets_mining
\* has returned, after _step_finalize_results or by the return that follows
\* a failed step; main makes no exit call and returns on both
exit_status == [done |-> 0, aborted |-> 0]

Next ==
  \/ ExecuteFrequentItemsetsPhase
  \/ FrequentItemsetsPhaseFails
  \/ ProcessFrequentItemsetsResults
  \/ CheckTermination
  \/ Execute2ItemsetsGeneration
  \/ ExecuteHigherLevelGeneration
  \/ HigherLevelGenerationFails
  \/ ProcessCandidateResults
  \/ AdvanceIteration
  \/ FinalizeResults

Spec == Init /\ [][Next]_vars

\* ------------------------------------- the Candidate Generator on its own
\* the driver is not running
DriverIdle ==
  /\ db = <<>>
  /\ min_support_count = 1
  /\ max_iterations = DEFAULT_MAX_ITERATIONS
  /\ current_level = 1
  /\ current_iteration = 0
  /\ pc = "idle"
  /\ fi_dir = <<>>
  /\ fi_parts = <<>>
  /\ ci_dir = <<>>
  /\ ci_parts = <<>>
  /\ final_file = [exists |-> FALSE, blocks |-> <<>>]
  /\ job_log = <<>>

driver_vars == << db, min_support_count, max_iterations, current_level,
                  current_iteration, pc, fi_dir, fi_parts, ci_dir, ci_parts,
                  final_file, job_log >>

\* the job is started on an input file of at most MaxRecords distinct
\* k-itemsets for a level k >= 2, written in ascending order, each on one
\* line with support 1, or each on two lines, the second with support 2
InitGenerator ==
  /\ DriverIdle
  /\ \E k \in 2..(NumItems - 1), twice \in BOOLEAN :
       job = [kind |-> "generator", level |-> k, twice |-> twice,
              input |-> <<>>, step |-> 0,
              probes |-> <<>>, verdicts |-> <<>>, output |-> EmptyBag]

\* a record of the input file
InputLines(itemset, twice) ==
  << [itemset |-> itemset, support |-> 1] >>
    \o (IF twice THEN << [itemset |-> itemset, support |-> 2] >> ELSE <<>>)

\* the input file gets one more itemset before the job is started
WriteInputRecord ==
  /\ job.kind = "generator" /\ job.step = 0
  /\ Len(job.input) < MaxRecords * (IF job.twice THEN 2 ELSE 1)
  /\ \E S \in SubsetsOfSize(Items, job.level) :
       /\ IF job.input = <<>> THEN TRUE
          ELSE /\ job.input[Len(job.input)].itemset # SortSet(S)
               /\ StrLeq(job.input[Len(job.input)].itemset, SortSet(S))
       /\ job' = [job EXCEPT !.input = @ \o InputLines(SortSet(S), job.twice)]
  /\ UNCHANGED driver_vars

\* step 1: prefix_mapper and checking_subsets_generating_reducer
GeneratorStep1 ==
  /\ job.kind = "generator" /\ job.step = 0
  /\ job' = [job EXCEPT !.step = 1, !.probes = Stage1(job.input)]
  /\ UNCHANGED driver_vars

\* step 2: identical_mapper and subset_validating_reducer
GeneratorStep2 ==
  /\ job.kind = "generator" /\ job.step = 1
  /\ job' = [job EXCEPT !.step = 2, !.verdicts = Stage2(job.probes)]
  /\ UNCHANGED driver_vars

\* step 3: identical_mapper and candidate_pruning_reducer
GeneratorStep3 ==
  /\ job.kind = "generator" /\ job.step = 2
  /\ job' = [job EXCEPT !.step = 3, !.output = SeqToBag(Stage3(job.verdicts))]
  /\ UNCHANGED driver_vars

NextGenerator ==
  \/ WriteInputRecord
  \/ GeneratorStep1
  \/ GeneratorStep2
  \/ GeneratorStep3

SpecGenerator == InitGenerator /\ [][NextGenerator]_vars

\* --------------------------------------- the Support Counter on its own
\* the lines a transaction file is written from: the well-formed lines of
\* the runs' databases, and a line without a tab
TransactionLines ==
  [i \in DOMAIN TxPool |-> [nfields |-> 2, itemset |-> TxPool[i]]]
    \o << [nfields |-> 1, itemset |-> <<1>>] >>
LineIndex(line) == CHOOSE i \in DOMAIN TransactionLines : TransactionLines[i] = line

\* the lines a candidate file is written from: one or two of the first two
\* items, in either order, an item possibly repeated
CandidateItems == {1, 2}
CandidateLines ==
  {<<x>> : x \in CandidateItems} \cup {<<x, y>> : x, y \in CandidateItems}

\* the job is started with or without --min-support (0: not given), with
\* or without --itemset-files, the file named there existing or not
InitCounter ==
  /\ DriverIdle
  /\ \E m \in 0..MaxMinSup, requested \in BOOLEAN, exists \in BOOLEAN :
       /\ exists => requested
       /\ job = [kind |-> "counter", min_support |-> m, requested |-> requested,
                 candidate_file |-> IF exists THEN FileOf(EmptyBag) ELSE NoFile,
                 transactions |-> <<>>, step |-> 0, output |-> EmptyBag]

\* the transaction file gets one more line before the job is started
WriteTransactionLine ==
  /\ job.kind = "counter" /\ job.step = 0
  /\ Len(job.transactions) < MaxTx
  /\ \E i \in DOMAIN TransactionLines :
       /\ IF job.transactions = <<>> THEN TRUE
          ELSE LineIndex(job.transactions[Len(job.transactions)]) <= i
       /\ job' = [job EXCEPT !.transactions = Append(@, TransactionLines[i])]
  /\ UNCHANGED driver_vars

\* the candidate file gets one more line before the job is started
WriteCandidateLine ==
  /\ job.kind = "counter" /\ job.step = 0
  /\ job.candidate_file.exists
  /\ BagCardinality(job.candidate_file.lines) < MaxCandidateLines
  /\ \E line \in CandidateLines :
       job' = [job EXCEPT !.candidate_file.lines = @ (+) SetToBag({line})]
  /\ UNCHANGED driver_vars

\* the job's options as the command line gives them
JobOptions ==
  [min_support |-> job.min_support,
   itemset_files |-> IF job.requested THEN <<job.candidate_file>> ELSE <<>>]

\* the job runs
RunCounter ==
  /\ job.kind = "counter" /\ job.step = 0
  /\ job' = [job EXCEPT !.step = 1,
                        !.output = ItemsetSupportCounter(job.transactions, JobOptions)]
  /\ UNCHANGED driver_vars

NextCounter ==
  \/ WriteTransactionLine
  \/ WriteCandidateLine
  \/ RunCounter

SpecCounter == InitCounter /\ [][NextCounter]_vars

\* ------------------------------------------------- Support Converter
\* A decimal support p is held as its numerator over PDen = 2^PBits: such
\* a p is a float without rounding, and so is p * N for the N reached here.
PDen == 2 ^ PBits
DEFAULT_MIN_SUPPORT_DECIMAL == PDen \div 2

\* a mapper without the test of the number of fields
dc_mapper_counts_every_line(line) == << << "total_transactions", 1 >> >>

\* mapper: one count per line of exactly two tab-separated fields
dc_mapper(line) ==
  IF line.nfields # 2 THEN <<>> ELSE << << "total_transactions", 1 >> >>

\* combiner: the sum of the counts of a map task
dc_combiner(key, values) == << <<key, SumSeq(values)>> >>

\* reducer_init: the decimal support of the options, the default when the
\* option's value is falsy
dc_reducer_init(options) ==
  [minimum_decimal_support |->
     IF options.min_support_decimal # 0 THEN options.min_support_decimal
     ELSE DEFAULT_MIN_SUPPORT_DECIMAL]

\* reducer: floor(minimum_decimal_support * total_count), as a line
dc_reducer(task, key, values) ==
  LET total_count == SumSeq(values)
  IN  << (task.minimum_decimal_support * total_count) \div PDen >>

\* the job: the lines it writes, one per reduce key
DecimalSupportConverter(lines, options) ==
  LET task == dc_reducer_init(options)
      mapped == Shuffle(Flatten([i \in DOMAIN lines |-> dc_mapper(lines[i])]))
      combined == Shuffle(Flatten([g \in DOMAIN mapped |->
                                     dc_combiner(mapped[g][1], mapped[g][2])]))
  IN  Flatten([g \in DOMAIN combined |->
                 dc_reducer(task, combined[g][1], combined[g][2])])

\* find_min_support_count: the first non-empty output line as an integer,
\* ValueError for p outside [0, 1], RuntimeError when the job wrote nothing
find_min_support_count(lines, min_support_decimal) ==
  IF ~(0 <= min_support_decimal /\ min_support_decimal <= PDen)
  THEN [ok |-> FALSE, error |-> "ValueError", value |-> 0]
  ELSE LET output == DecimalSupportConverter(lines,
                       [min_support_decimal |-> min_support_decimal])
       IN  IF output = <<>>
           THEN [ok |-> FALSE, error |-> "RuntimeError", value |-> 0]
           ELSE [ok |-> TRUE, error |-> "", value |-> output[1]]

\* the converter is called with a decimal support of 0, 1/PDen, ..., 1, or
\* one step above 1
InitConverter ==
  /\ DriverIdle
  /\ \E n \in 0..(PDen + 1) :
       job = [kind |-> "converter", min_support_decimal |-> n,
              transactions |-> <<>>, step |-> 0,
              result |-> [ok |-> FALSE, error |-> "", value |-> 0]]

\* the transaction file gets one more line before the converter is called
WriteConverterLine ==
  /\ job.kind = "converter" /\ job.step = 0
  /\ Len(job.transactions) < MaxTx
  /\ \E i \in DOMAIN TransactionLines :
       /\ IF job.transactions = <<>> THEN TRUE
          ELSE LineIndex(job.transactions[Len(job.transactions)]) <= i
       /\ job' = [job EXCEPT !.transactions = Append(@, TransactionLines[i])]
  /\ UNCHANGED driver_vars

\* find_min_support_count is called
RunConverter ==
  /\ job.kind = "converter" /\ job.step = 0
  /\ job' = [job EXCEPT !.step = 1,
                        !.result = find_min_support_count(job.transactions,
                                                          job.min_support_decimal)]
  /\ UNCHANGED driver_vars

NextConverter ==
  \/ WriteConverterLine
  \/ RunConverter

SpecConverter == InitConverter /\ [][NextConverter]_vars

\* --------------------- the two jobs that read the transaction file
InitTransactionJobs == InitCounter \/ InitConverter

NextTransactionJobs == NextCounter \/ NextConverter

SpecTransactionJobs == InitTransactionJobs /\ [][NextTransactionJobs]_vars

\* ------------------------------- the 2-Candidate Generator on its own
\* the support fields an F_1 record is written with: a field that is not
\* all digits (held as UNEXISTED_SUPPORT), 0, 1, ...
F1Supports == {UNEXISTED_SUPPORT} \cup (0..MaxMinSup)

\* the generator is called on one F_1 file, or on one file per record
InitPairs ==
  /\ DriverIdle
  /\ \E split \in BOOLEAN :
       job = [kind |-> "pairs", split |-> split, records |-> <<>>, step |-> 0,
              result |-> [ok |-> FALSE, lines |-> <<>>, candidates_generated |-> 0]]

\* the F_1 input gets one more record before the generator is called
WriteF1Record ==
  /\ job.kind = "pairs" /\ job.step = 0
  /\ Len(job.records) < MaxF1Records
  /\ \E x \in Items, support \in F1Supports :
       job' = [job EXCEPT !.records = Append(@, [itemset |-> <<x>>, support |-> support])]
  /\ UNCHANGED driver_vars

\* the input files of the call
PairsInputs ==
  IF job.split THEN [i \in DOMAIN job.records |-> << job.records[i] >>]
  ELSE << job.records >>

\* generate_candidate_2_itemsets is called
RunPairs ==
  /\ job.kind = "pairs" /\ job.step = 0
  /\ job' = [job EXCEPT !.step = 1,
                        !.result = generate_candidate_2_itemsets(PairsInputs)]
  /\ UNCHANGED driver_vars

NextPairs ==
  \/ WriteF1Record
  \/ RunPairs

SpecPairs == InitPairs /\ [][NextPairs]_vars

\* ----------------------------- one reduce group of stage 2 on its own
\* the group of the last two items: its self-probes, and the probes of the
\* candidates that need this pair
GroupKey == << NumItems - 1, NumItems >>
GroupValues ==
  {[cand |-> <<>>, sup |-> s] : s \in 1..MaxMinSup}
    \cup {[cand |-> <<p>> \o GroupKey, sup |-> UNEXISTED_SUPPORT] :
            p \in 1..(NumItems - 2)}

InitValidator ==
  /\ DriverIdle
  /\ job = [kind |-> "validator", values |-> <<>>, step |-> 0,
            verdicts |-> <<>>, output |-> <<>>]

\* one more value is delivered to the group: the values arrive in any order
DeliverValue ==
  /\ job.kind = "validator" /\ job.step = 0
  /\ Len(job.values) < MaxGroupValues
  /\ \E v \in GroupValues : job' = [job EXCEPT !.values = Append(@, v)]
  /\ UNCHANGED driver_vars

\* the reducer of stage 2 is called on the group, then stage 3 on what it
\* emits
RunValidator ==
  /\ job.kind = "validator" /\ job.step = 0
  /\ LET verdicts == subset_validating_reducer(GroupKey, job.values)
     IN  job' = [job EXCEPT !.step = 1, !.verdicts = verdicts,
                            !.output = Stage3(verdicts)]
  /\ UNCHANGED driver_vars

NextValidator ==
  \/ DeliverValue
  \/ RunValidator

SpecValidator == InitValidator /\ [][NextValidator]_vars

\* ------------------ the combiners applied to any part of the map output
\* the lines the transaction file is written from: lines over the first
\* two items, and a line without a tab
CombinerLines ==
  << [nfields |-> 2, itemset |-> <<1>>], [nfields |-> 2, itemset |-> <<2>>],
     [nfields |-> 2, itemset |-> <<1, 2>>], [nfields |-> 1, itemset |-> <<1>>] >>

\* the job is the Support Counter, in singleton mode or with a candidate
\* file of two candidates, with or without --min-support, or the Support
\* Converter with a decimal support of 1
InitCombiner ==
  /\ DriverIdle
  /\ \E class \in {"singleton", "candidate", "converter"}, m \in 0..MaxMinSup :
       /\ class = "converter" => m = 0
       /\ job = [kind |-> "combining", class |-> class,
                 min_support |-> IF class = "converter" THEN PDen ELSE m,
                 last_line |-> 1, transactions |-> <<>>, pending |-> EmptyBag,
                 step |-> 0, output |-> EmptyBag]

\* the options of the job
CombinerJobOptions ==
  IF job.class = "converter" THEN [min_support_decimal |-> job.min_support]
  ELSE [min_support |-> job.min_support,
        itemset_files |-> IF job.class = "candidate"
                          THEN << FileOf(SetToBag({<<1>>, <<1, 2>>})) >>
                          ELSE <<>>]

\* the transaction file gets one more line before the job is started
WriteCombinerLine ==
  /\ job.kind = "combining" /\ job.step = 0
  /\ Len(job.transactions) < MaxCombinerLines
  /\ \E i \in DOMAIN CombinerLines :
       /\ job.last_line <= i
       /\ job' = [job EXCEPT !.transactions = Append(@, CombinerLines[i]),
                             !.last_line = i]
  /\ UNCHANGED driver_vars

\* the map phase: the pairs the mappers emit
RunMappers ==
  /\ job.kind = "combining" /\ job.step = 0
  /\ LET lines == job.transactions
         emits == IF job.class = "converter"
                  THEN Flatten([i \in DOMAIN lines |-> dc_mapper(lines[i])])
                  ELSE Flatten([i \in DOMAIN lines |->
                                  sc_mapper(sc_init(CombinerJobOptions), lines[i])])
     IN  job' = [job EXCEPT !.step = 1, !.pending = SeqToBag(emits)]
  /\ UNCHANGED driver_vars

\* a combiner is called on some of the pending pairs of one key, and its
\* output takes their place
CombineSome ==
  /\ job.kind = "combining" /\ job.step = 1
  /\ \E part \in SubBag(job.pending) :
       /\ part # EmptyBag
       /\ \A e1, e2 \in BagToSet(part) : e1[1] = e2[1]
       /\ LET pairs == BagToSeq(part)
              key == pairs[1][1]
              values == [i \in DOMAIN pairs |-> pairs[i][2]]
              combined == IF job.class = "converter" THEN dc_combiner(key, values)
                          ELSE sc_combiner(key, values)
          IN  job' = [job EXCEPT !.pending = (@ (-) part) (+) SeqToBag(combined)]
  /\ UNCHANGED driver_vars

\* the reduce phase: each key's pending values, delivered in one order or
\* in the reverse order
RunReducers ==
  /\ job.kind = "combining" /\ job.step = 1
  /\ \E reversed \in BOOLEAN :
       LET listed == BagToSeq(job.pending)
           delivered == IF reversed
                        THEN [i \in DOMAIN listed |-> listed[Len(listed) + 1 - i]]
                        ELSE listed
           groups == Shuffle(delivered)
           written ==
             IF job.class = "converter"
             THEN Flatten([g \in DOMAIN groups |->
                             dc_reducer(dc_reducer_init(CombinerJobOptions),
                                        groups[g][1], groups[g][2])])
             ELSE Flatten([g \in DOMAIN groups |->
                             sc_reducer(sc_init(CombinerJobOptions),
                                        groups[g][1], groups[g][2])])
       IN  job' = [job EXCEPT !.step = 2, !.output = SeqToBag(written)]
  /\ UNCHANGED driver_vars

NextCombiner ==
  \/ WriteCombinerLine
  \/ RunMappers
  \/ CombineSome
  \/ RunReducers

SpecCombiner == InitCombiner /\ [][NextCombiner]_vars

\* ------------------------------------------- a driver run that goes on
\* the steps of the loop, and the two ways frequent_itemsets_mining returns
LoopSteps == {"count", "process_frequent", "check_termination", "generate",
              "process_candidates", "advance", "finalize"}
Returned == pc \in {"done", "aborted"}

\* the driver is one sequential program: until it has returned it goes on
\* to another step
RunsOn == ~Returned /\ pc' \in LoopSteps \cup {"done", "aborted"}

SpecRunning == Init /\ [][Next]_vars /\ WF_pc(RunsOn)

\* ------------------- a driver run started without --clean after another
\* what an earlier run may have left in frequent-itemsets/: its final file,
\* and the file of a level the new run does not reach
LeftFinalFile == FileOf(SetToBag({[itemset |-> <<1>>, support |-> MaxTx + 1]}))
LeftLevelFile ==
  FileOf(SetToBag({[itemset |-> SortSet(Items), support |-> MaxTx + 1]}))
Leftovers ==
  {<<>>,
   PutFile(<<>>, FinalFileName, LeftFinalFile),
   PutFile(<<>>, LevelFileName(NumItems), LeftLevelFile),
   PutFile(PutFile(<<>>, FinalFileName, LeftFinalFile),
           LevelFileName(NumItems), LeftLevelFile)}

InitAfterEarlierRun ==
  /\ db \in Databases
  /\ min_support_count \in 1..MaxMinSup
  /\ max_iterations \in (1..MaxIterArg) \cup {DEFAULT_MAX_ITERATIONS}
  /\ current_level = 1
  /\ current_iteration = 0
  /\ pc = "count"
  /\ fi_dir \in Leftovers
  /\ fi_parts = <<>>
  /\ ci_dir = <<>>
  /\ ci_parts = <<>>
  /\ final_file = [exists |-> FALSE, blocks |-> <<>>]
  /\ job_log = <<>>
  /\ job = NoJob

SpecAfterEarlierRun == InitAfterEarlierRun /\ [][Next]_vars

\* ------------------------------- a driver run, or the generator on its own
InitArtifacts == Init \/ InitGenerator

NextArtifacts == Next \/ NextGenerator

SpecArtifacts == InitArtifacts /\ [][NextArtifacts]_vars

\* ------------------------------------------------ a run on scenario A
\* the transactions of scenario A, the items a, b, c, d held as 1, 2, 3, 4
ScenarioA == << <<1, 2, 3>>, <<1, 2, 4>>, <<1, 2, 3>>, <<2, 3, 4>> >>

\* the run is started with min_support 2 on a file holding the four
\* transactions in some order
InitScenarioA ==
  /\ \E order \in {f \in [1..4 -> 1..4] : \A i, j \in 1..4 : f[i] = f[j] => i = j} :
       db = [i \in 1..4 |-> [nfields |-> 2, itemset |-> ScenarioA[order[i]]]]
  /\ min_support_count = 2
  /\ max_iterations \in (1..MaxIterArg) \cup {DEFAULT_MAX_ITERATIONS}
  /\ current_level = 1
  /\ current_iteration = 0
  /\ pc = "count"
  /\ fi_dir = <<>>
  /\ fi_parts = <<>>
  /\ ci_dir = <<>>
  /\ ci_parts = <<>>
  /\ final_file = [exists |-> FALSE, blocks |-> <<>>]
  /\ job_log = <<>>
  /\ job = NoJob

SpecScenarioA == InitScenarioA /\ [][Next]_vars

\* ------------------------------------------------- what the claims speak of
\* sigma(S): the number of transactions of the database that contain S
Sigma(S) ==
  Cardinality({i \in DOMAIN db :
                 db[i].nfields = 2 /\ S \subseteq Range(db[i].itemset)})

Itemsets == (SUBSET Items) \ {{}}
Levels == 1..(NumItems + 1)

\* the lines of a per-level file, and the itemsets they denote
FLines(level) == BagToSet(fi_file(level).lines)
CLines(level) == BagToSet(ci_file(level).lines)
FSets(level) == {Range(r.itemset) : r \in FLines(level)}
CSets(level) == {Range(c) : c \in CLines(level)}

\* an itemset string with strictly ascending items
StrictlySorted(str) == \A i \in 1..(Len(str) - 1) : str[i] < str[i + 1]

\* the run ended by itself: the loop was left by a break, not by its cap
EndedUncapped == pc = "done" /\ current_iteration < max_iterations

\* C1: when the run finishes without a job failure and without hitting
\* max_iterations, the final file holds a record (S, sigma(S)) for exactly
\* the itemsets S with sigma(S) >= min_support.
C1_FinalFileIsTheFrequentItemsets ==
  EndedUncapped =>
    LET final == BagSumSeq(final_file.blocks)
    IN  /\ \A S \in Itemsets :
             Sigma(S) >= min_support_count =>
               CopiesIn([itemset |-> SortSet(S), support |-> Sigma(S)], final) >= 1
        /\ \A r \in BagToSet(final) :
             /\ r.support = Sigma(Range(r.itemset))
             /\ r.support >= min_support_count

\* C2: every candidate written to C_{k+1}, by the 2-Candidate Generator or
\* by the three-stage job, has all of its k-subsets in F_k.
C2_CandidatesHaveFrequentSubsets ==
  \A k \in Levels :
    ci_file(k + 1).exists =>
      \A c \in CSets(k + 1) : \A x \in c : (c \ {x}) \in FSets(k)

\* a run in which both generators wrote candidates and the three-stage job
\* dropped a joined pair whose probed subset is not frequent
C2_Witness ==
  /\ ci_file(2).lines # EmptyBag
  /\ ci_file(3).lines # EmptyBag
  /\ \E a, b, c \in Items :
       /\ a < b /\ b < c
       /\ {a, b} \in FSets(2) /\ {a, c} \in FSets(2) /\ {b, c} \notin FSets(2)
       /\ {a, b, c} \notin CSets(3)

\* C5: every record of every per-level file F_k has a support of at least
\* the min_support the run was started with.
C5_SupportsReachMinSupport ==
  \A k \in Levels : \A r \in FLines(k) : r.support >= min_support_count

\* a run whose counter dropped an item for its support and kept a pair
C5_Witness ==
  /\ min_support_count >= 2
  /\ FLines(2) # {}
  /\ \E x \in Items : Sigma({x}) = 1 /\ {x} \notin FSets(1)

C9_EmptyFileStopsTheLoop ==
  [][/\ (pc = "check_termination" /\ FLines(current_level) = {})
          => (pc' = "finalize" /\ job_log' = job_log)
     /\ (pc = "process_candidates" /\ CLines(current_level + 1) = {})
          => (pc' = "finalize" /\ job_log' = job_log)
     /\ pc = "finalize"
          => (pc' = "done" /\ final_file'.exists /\ job_log' = job_log)]_vars

\* a run stopped at step 2 by an empty F_2 whose C_2 had candidates
C9_Witness ==
  /\ pc = "done" /\ current_iteration < max_iterations
  /\ current_level = 2 /\ fi_file(2).exists /\ FLines(2) = {}
  /\ CLines(2) # {}

\* the per-level files that have records, in ascending level
NonEmptyLevels == SortSet({k \in Levels : FLines(k) # {}})

\* C10: the final file lists all records of F_1, then all of F_2, and so
\* on in ascending k, for every number of levels the run reaches.
C10_FinalFileInLevelOrder ==
  pc = "done" =>
    /\ final_file.exists
    /\ final_file.blocks =
         [i \in DOMAIN NonEmptyLevels |-> fi_file(NonEmptyLevels[i]).lines]

\* a finished run that reached four levels
C10_Witness ==
  /\ pc = "done"
  /\ Len(final_file.blocks) = 4
  /\ final_file.blocks[4] # final_file.blocks[1]

\* the itemsets of the generator job's input file
InputSets == {Range(job.input[i].itemset) : i \in DOMAIN job.input}

\* C3: for every k >= 2 and every F_k, a (k+1)-itemset C (a prefix joined
\* with two of its postfixes) is in C_{k+1} if and only if every k-subset
\* of C is in F_k.
C3_CandidatesAreExactlyTheJoinable ==
  (job.kind = "generator" /\ job.step = 3) =>
    \A C \in SubsetsOfSize(Items, job.level + 1) :
      (SortSet(C) \in BagToSet(job.output)) <=> (\A x \in C : (C \ {x}) \in InputSets)

\* the well-formed lines of the counter job's transaction file containing S
Containing(S) ==
  Cardinality({i \in DOMAIN job.transactions :
                 /\ job.transactions[i].nfields = 2
                 /\ S \subseteq Range(job.transactions[i].itemset)})

\* the records the counter job wrote for S
RecordsOf(S) == {r \in BagToSet(job.output) : Range(r.itemset) = S}

\* S has the one record (S, n) in the job's output
EmittedWith(S, n) ==
  /\ RecordsOf(S) = {[itemset |-> SortSet(S), support |-> n]}
  /\ CopiesIn([itemset |-> SortSet(S), support |-> n], job.output) = 1

\* the minimum support the job works with
EffectiveMinSupport ==
  IF job.min_support # 0 THEN job.min_support ELSE DEFAULT_MIN_SUPPORT

\* C4: for any database and any candidate file, in candidate mode each
\* candidate S is emitted with the number of transactions containing S when
\* that number is >= min_support and is absent otherwise; in singleton mode
\* each item is emitted with the number of transactions containing it iff
\* that number is >= min_support.
C4_CountsAreExact ==
  (job.kind = "counter" /\ job.step = 1) =>
    /\ job.requested =>
         \A line \in BagToSet(job.candidate_file.lines) :
           LET S == Range(line)
           IN  IF Containing(S) >= EffectiveMinSupport
               THEN EmittedWith(S, Containing(S))
               ELSE RecordsOf(S) = {}
    /\ ~job.requested =>
         \A x \in Items :
           IF Containing({x}) >= EffectiveMinSupport
           THEN EmittedWith({x}, Containing({x}))
           ELSE RecordsOf({x}) = {}

\* every record of a bag of F_k lines is alone in naming its itemset
OneRecordPerItemset(lines) ==
  /\ \A r \in BagToSet(lines) : CopiesIn(r, lines) = 1
  /\ \A r1, r2 \in BagToSet(lines) :
       Range(r1.itemset) = Range(r2.itemset) => r1 = r2

\* every line of a bag of C_k lines is alone in naming its itemset
OneLinePerCandidate(lines) ==
  /\ \A c \in BagToSet(lines) : CopiesIn(c, lines) = 1
  /\ \A c1, c2 \in BagToSet(lines) : Range(c1) = Range(c2) => c1 = c2

WellFormedRecords ==
  Cardinality({i \in DOMAIN job.transactions : job.transactions[i].nfields = 2})

\* the converter was called with a p in [0, 1]
ConverterCalled ==
  /\ job.kind = "converter" /\ job.step = 1
  /\ job.min_support_decimal <= PDen

\* C11: for every p in [0, 1], p = 0 and p = 1 included, and every database
\* of N well-formed records, the Support Converter returns floor(p * N).
C11_ConverterReturnsFloorOfPTimesN ==
  ConverterCalled =>
    /\ job.result.ok
    /\ job.result.value = (job.min_support_decimal * WellFormedRecords) \div PDen

\* C12: when the input has no well-formed record, the Support Converter
\* yields the value 0 for every p in [0, 1], not an error and not nothing.
C12_ConverterYieldsZeroOnNoRecord ==
  (ConverterCalled /\ WellFormedRecords = 0) =>
    (job.result.ok /\ job.result.value = 0)

\* the 2-Candidate Generator was called
PairsCalled == job.kind = "pairs" /\ job.step = 1

\* the items of the F_1 records
F1Items == {job.records[i].itemset[1] : i \in DOMAIN job.records}

\* the input is an F_1: one record per item, each with a support of digits
IsF1 ==
  /\ \A i \in DOMAIN job.records : IsDigit(job.records[i].support)
  /\ \A i, j \in DOMAIN job.records :
       job.records[i].itemset = job.records[j].itemset => i = j

\* C13: for an F_1 of n distinct items the 2-Candidate Generator writes
\* exactly the n(n-1)/2 pairs {a, b}, a # b, each once as "min max", the
\* lines in lexicographic order, and returns n(n-1)/2, whatever the order
\* of the F_1 records.
C13_PairsOfF1InOrder ==
  (PairsCalled /\ IsF1 /\ PairsInputs # <<>>) =>
    LET n == Cardinality(F1Items)
        lines == job.result.lines
    IN  /\ job.result.ok
        /\ Range(lines) = {pair \in F1Items \X F1Items : pair[1] < pair[2]}
        /\ Len(lines) = (n * (n - 1)) \div 2
        /\ \A i \in 1..(Len(lines) - 1) :
             lines[i] # lines[i + 1] /\ StrLeq(lines[i], lines[i + 1])
        /\ job.result.candidates_generated = (n * (n - 1)) \div 2

\* three items, recorded out of order
C13_Witness ==
  /\ PairsCalled /\ IsF1
  /\ Len(job.records) = 3
  /\ job.records[1].itemset[1] > job.records[2].itemset[1]
  /\ job.records[3].itemset[1] > job.records[2].itemset[1]
  /\ Len(job.result.lines) = 3

\* C14: if the same singleton occurs in two records with different support
\* values, whatever the two values are, the 2-Candidate Generator aborts
\* with an error and writes no C_2 file.
C14_ConflictingSupportsAbort ==
  (/\ PairsCalled
   /\ \E i, j \in DOMAIN job.records :
        /\ job.records[i].itemset = job.records[j].itemset
        /\ IsDigit(job.records[i].support) /\ IsDigit(job.records[j].support)
        /\ job.records[i].support # job.records[j].support)
    => ~job.result.ok

\* the lines of the job's transaction file without the malformed ones
WithoutMalformed ==
  SelectSeq(job.transactions, LAMBDA line : line.nfields = 2)

\* C15: lines that are not of exactly two tab-separated fields, added to
\* the transaction input, change neither what the Support Counter emits, in
\* singleton mode or for the candidates of any level, nor what the Support
\* Converter counts and returns.
C15_MalformedLinesAreIgnored ==
  /\ (job.kind = "counter" /\ job.step = 1) =>
       job.output = ItemsetSupportCounter(WithoutMalformed, JobOptions)
  /\ (job.kind = "converter" /\ job.step = 1) =>
       job.result = find_min_support_count(WithoutMalformed,
                                           job.min_support_decimal)

\* the converter returned a count for a file of a record and a malformed
\* line
C15_Witness ==
  /\ job.kind = "converter" /\ job.step = 1
  /\ Len(WithoutMalformed) = 1 /\ Len(job.transactions) = 2
  /\ job.result.ok /\ job.result.value = 1

\* the records of the F_1 input whose support field is not of digits and
\* whose item has no other record with a support of digits
SkippedRecords ==
  {i \in DOMAIN job.records :
     /\ ~IsDigit(job.records[i].support)
     /\ \A j \in DOMAIN job.records :
          job.records[j].itemset = job.records[i].itemset
            => ~IsDigit(job.records[j].support)}

\* C16: a record whose support field is not a decimal integer is skipped
\* by the generators: in the 2-Candidate Generator it brings no item to
\* C_2, so an item recorded only with such supports is in no pair written.
C16_NonIntegerSupportIsSkipped ==
  PairsCalled =>
    \A i \in SkippedRecords :
      \A n \in DOMAIN job.result.lines :
        job.records[i].itemset[1] \notin Range(job.result.lines[n])

\* the counter ran with a candidate file requested that cannot be opened
CounterRanWithoutItsFile ==
  /\ job.kind = "counter" /\ job.step = 1
  /\ job.requested /\ ~job.candidate_file.exists

\* C17: when a candidate file was requested and cannot be opened, the
\* Support Counter raises no error, stays in candidate mode and emits no
\* record, as it does with an empty candidate file, for every database.
C17_UnopenableCandidateFileIsEmpty ==
  CounterRanWithoutItsFile =>
    /\ sc_init(JobOptions).scanning_specific_itemsets
    /\ job.output = EmptyBag
    /\ job.output =
         ItemsetSupportCounter(job.transactions,
           [min_support |-> job.min_support,
            itemset_files |-> << FileOf(EmptyBag) >>])

\* the counter ran without its file on a database of two records
C17_Witness ==
  /\ CounterRanWithoutItsFile
  /\ Len(job.transactions) = 2
  /\ \A i \in DOMAIN job.transactions : job.transactions[i].nfields = 2

\* a started job that failed: a MapReduce job leaves no part file, the
\* 2-Candidate Generator leaves no C_2
Failed(started) ==
  IF started[1] = "count" THEN DOMAIN fi_parts[started[2]] = {}
  ELSE IF started[2] = 2 THEN ~ci_file(2).exists
  ELSE DOMAIN ci_parts[started[2]] = {}

\* C18: if the support-count job or the candidate-generation job of any
\* level fails, the driver starts no further job and does not write the
\* final consolidated file.
C18_JobFailureAbortsTheRun ==
  \A n \in DOMAIN job_log :
    Failed(job_log[n]) => (n = Len(job_log) /\ ~final_file.exists)

\* a run whose candidate-generation job for level 3 failed
C18_Witness ==
  /\ job_log # <<>>
  /\ Failed(job_log[Len(job_log)])
  /\ job_log[Len(job_log)] = <<"generate", 3>>

\* the run was stopped by a configuration error: find_frequent_itemsets
\* refuses a min_support_count below 1
StoppedByConfigurationError == pc = "aborted" /\ min_support_count < 1

\* C19: the driver process exits with status 0 when the run completes
\* cleanly, early termination included, and with a nonzero status when a
\* configuration error stops the run.
C19_ExitStatusTellsErrors ==
  /\ pc = "done" => exit_status.done = 0
  /\ StoppedByConfigurationError => exit_status.aborted # 0

\* C20: the driver runs support counting for the levels 1..max_iterations
\* at most; when the cap is reached while F_max and C_{max+1} still have
\* lines, no error is raised and the final file is written and holds
\* F_1, ..., F_max.
C20_CapEndsTheRunWithItsLevels ==
  /\ \A n \in DOMAIN job_log :
       job_log[n][1] = "count" => job_log[n][2] \in 1..max_iterations
  /\ (/\ pc \in {"finalize", "done", "aborted"}
      /\ current_iteration = max_iterations
      /\ FLines(max_iterations) # {} /\ CLines(max_iterations + 1) # {})
       => /\ pc # "aborted"
          /\ pc = "done" =>
               /\ final_file.exists
               /\ final_file.blocks =
                    [k \in 1..max_iterations |-> fi_file(k).lines]

\* a run capped at two levels whose F_2 and C_3 have lines
C20_Witness ==
  /\ pc = "done"
  /\ max_iterations = 2 /\ current_iteration = 2
  /\ FLines(2) # {} /\ CLines(3) # {}
  /\ Len(final_file.blocks) = 2

\* a record of a per-level file
Rec(itemset, support) == [itemset |-> itemset, support |-> support]

\* C21 as stated: on scenario A with min_support 2 the driver produces
\* F_1 = {a:3, b:4, c:3, d:2}, an F_2 that includes a b:3, a c:2, b c:3,
\* b d:2 and c d:2, and F_3 = {a b c:2}.
C21_ScenarioA ==
  /\ fi_file(1).exists =>
       fi_file(1).lines = SetToBag({Rec(<<1>>, 3), Rec(<<2>>, 4),
                                    Rec(<<3>>, 3), Rec(<<4>>, 2)})
  /\ fi_file(2).exists =>
       {Rec(<<1, 2>>, 3), Rec(<<1, 3>>, 2), Rec(<<2, 3>>, 3),
        Rec(<<2, 4>>, 2), Rec(<<3, 4>>, 2)} \subseteq FLines(2)
  /\ fi_file(3).exists => fi_file(3).lines = SetToBag({Rec(<<1, 2, 3>>, 2)})
  /\ (pc = "done" /\ current_iteration < max_iterations) => fi_file(3).exists

\* C21, amended: on scenario A with min_support 2 the driver produces
\* F_1 = {a:3, b:4, c:3, d:2}, F_2 = {a b:3, a c:2, b c:3, b d:2} and
\* F_3 = {a b c:2}; c d is in one transaction only and is not in F_2, and
\* these are the itemsets of support 2 or more.
C21_ScenarioAWithoutCD ==
  /\ fi_file(1).exists =>
       fi_file(1).lines = SetToBag({Rec(<<1>>, 3), Rec(<<2>>, 4),
                                    Rec(<<3>>, 3), Rec(<<4>>, 2)})
  /\ fi_file(2).exists =>
       fi_file(2).lines = SetToBag({Rec(<<1, 2>>, 3), Rec(<<1, 3>>, 2),
                                    Rec(<<2, 3>>, 3), Rec(<<2, 4>>, 2)})
  /\ fi_file(3).exists => fi_file(3).lines = SetToBag({Rec(<<1, 2, 3>>, 2)})
  /\ (pc = "done" /\ current_iteration < max_iterations) => fi_file(3).exists
  /\ \A k \in 1..3 : \A r \in FLines(k) : r.support = Sigma(Range(r.itemset))
  /\ Sigma({3, 4}) = 1

\* the run on scenario A ended by itself with its three levels
C21_Witness ==
  /\ pc = "done" /\ current_iteration < max_iterations
  /\ db[1].itemset = <<2, 3, 4>>
  /\ fi_file(3).exists /\ final_file.exists

\* the n-th job of a run: count(1), generate(2), count(2), generate(3), ...
JobInOrder(n) ==
  IF n % 2 = 1 THEN <<"count", (n + 1) \div 2>>
  ELSE <<"generate", (n \div 2) + 1>>

\* C22: jobs are started one at a time in the order count(1), generate(2),
\* count(2), generate(3), ...; the support-count job of a level k >= 2 is
\* started only when C_k is written and, for k >= 3, is the consolidation
\* of the parts of its job; the candidate-generation job of level k + 1 is
\* started only when F_k is the consolidation of the parts of count(k).
C22_JobsRunOneAtATimeInOrder ==
  [][job_log' # job_log =>
       LET n == Len(job_log')
           started == job_log'[n]
           k == started[2]
       IN  /\ job_log' = Append(job_log, JobInOrder(n))
           /\ (started[1] = "count" /\ k >= 2) =>
                /\ ci_file(k).exists
                /\ k >= 3 =>
                     ci_file(k).lines = BagSumSeq(combine_parts(ci_parts[k], <<>>))
           /\ started[1] = "generate" =>
                /\ fi_file(k - 1).exists
                /\ fi_file(k - 1).lines =
                     BagSumSeq(combine_parts(fi_parts[k - 1], <<>>))]_vars

\* a run that started its fifth job, count(3)
C22_Witness ==
  /\ Len(job_log) = 5
  /\ job_log[5] = <<"count", 3>>
  /\ pc = "process_frequent"

\* C23: once iteration j has finished, no later step modifies F_j or
\* C_{j+1}: every job, consolidation and parts-directory refresh of an
\* iteration k > j, a failed job of level k and the final consolidation
\* leave F_1, ..., F_{k-1} and C_2, ..., C_k as they are.
C23_FinishedLevelsAreNeverModified ==
  [][\A j \in Levels :
       j < current_level =>
         /\ fi_file(j)' = fi_file(j)
         /\ ci_file(j + 1)' = ci_file(j + 1)]_vars

\* a run whose support-count job of level 3 failed, F_1, F_2, C_2 and C_3
\* holding lines
C23_Witness ==
  /\ pc = "aborted" /\ current_level = 3
  /\ job_log[Len(job_log)] = <<"count", 3>>
  /\ FLines(1) # {} /\ FLines(2) # {} /\ CLines(2) # {} /\ CLines(3) # {}

\* the number of probes of stage 1 with a key and a candidate
ProbeCount(key, cand) ==
  Cardinality({i \in DOMAIN job.probes :
                 job.probes[i][1] = key /\ job.probes[i][2].cand = cand})

\* the number of probes of stage 1 made for a candidate
ProbesFor(cand) ==
  Cardinality({i \in DOMAIN job.probes : job.probes[i][2].cand = cand})

\* the prefix of an input itemset: its items but the last
PrefixOf(S) == SubSeq(SortSet(S), 1, Cardinality(S) - 1)

\* C24: for every prefix group and every pair {q_a, q_b} of its postfixes,
\* not only the first, stage 1 emits for C = P + {q_a, q_b} exactly the k-1
\* probes (P minus p_j) + {q_a, q_b} when k >= 3 and exactly one probe
\* keyed q_a q_b when k = 2; and exactly one self-probe per input itemset.
C24_Stage1ProbesEveryPair ==
  (job.kind = "generator" /\ job.step >= 1 /\ ~job.twice) =>
    /\ \A S \in InputSets : ProbeCount(SortSet(S), <<>>) = 1
    /\ \A S1, S2 \in InputSets :
         (S1 # S2 /\ PrefixOf(S1) = PrefixOf(S2)) =>
           LET C == S1 \cup S2
               P == Range(PrefixOf(S1))
           IN  IF job.level = 2
               THEN /\ ProbeCount(SortSet(C \ P), SortSet(C)) = 1
                    /\ ProbesFor(SortSet(C)) = 1
               ELSE /\ \A p \in P : ProbeCount(SortSet(C \ {p}), SortSet(C)) = 1
                    /\ ProbesFor(SortSet(C)) = job.level - 1

\* the group holds a self-probe
HasSelfProbe == \E i \in DOMAIN job.values : job.values[i].cand = <<>>

\* the candidate probes of the group, and what was emitted, for a candidate
ProbesOf(cand) == {i \in DOMAIN job.values : job.values[i].cand = cand}
VerdictsOf(cand) == {i \in DOMAIN job.verdicts : job.verdicts[i][1] = cand}

\* C25: whatever the order in which the values of a stage-2 group arrive,
\* each candidate probe is re-emitted exactly once, with a valid support
\* iff the group holds a self-probe and with the unknown support otherwise;
\* so the candidates of the group that survive stage 3 are all of them when
\* the group holds a self-probe and none otherwise.
C25_ValidationIgnoresDeliveryOrder ==
  (job.kind = "validator" /\ job.step = 1) =>
    /\ \A i \in DOMAIN job.verdicts : job.verdicts[i][1] # <<>>
    /\ \A v \in GroupValues :
         v.cand # <<>> =>
           /\ Cardinality(VerdictsOf(v.cand)) = Cardinality(ProbesOf(v.cand))
           /\ \A i \in VerdictsOf(v.cand) :
                (job.verdicts[i][2] # UNEXISTED_SUPPORT) <=> HasSelfProbe
           /\ (v.cand \in Range(job.output)) <=>
                (HasSelfProbe /\ ProbesOf(v.cand) # {})

\* a group whose self-probe arrived between two candidate probes
C25_Witness ==
  /\ job.kind = "validator" /\ job.step = 1
  /\ Len(job.values) = 3
  /\ job.values[1].cand # <<>> /\ job.values[2].cand = <<>>
  /\ job.values[3].cand # <<>> /\ job.values[3].cand # job.values[1].cand
  /\ Len(job.output) = 2

\* what the job of the combining run writes when no combiner is called:
\* the reducers on the map output as it is
WithoutCombiner ==
  LET lines == job.transactions
  IN  IF job.class = "converter"
      THEN LET groups == Shuffle(Flatten([i \in DOMAIN lines |-> dc_mapper(lines[i])]))
           IN  SeqToBag(Flatten([g \in DOMAIN groups |->
                                   dc_reducer(dc_reducer_init(CombinerJobOptions),
                                              groups[g][1], groups[g][2])]))
      ELSE LET task == sc_init(CombinerJobOptions)
               groups == Shuffle(Flatten([i \in DOMAIN lines |->
                                            sc_mapper(task, lines[i])]))
           IN  SeqToBag(Flatten([g \in DOMAIN groups |->
                                   sc_reducer(task, groups[g][1], groups[g][2])]))

\* C26: whatever part of the map output the combiners are called on (none,
\* all of a key's values at once, or combiner outputs combined again) and
\* in whatever order the values reach the reducer, the Support Counter
\* writes the records it writes with no combiner at all, and so does the
\* Support Converter its count.
C26_CombinerIsLossless ==
  (job.kind = "combining" /\ job.step = 2) => job.output = WithoutCombiner

\* a candidate-mode run of three transactions whose counts were all
\* combined before the reducer, a count of 0 among them
C26_Witness ==
  /\ job.kind = "combining" /\ job.step = 2 /\ job.class = "candidate"
  /\ Len(job.transactions) = 3
  /\ job.transactions[1].itemset = <<1>> /\ job.transactions[3].nfields = 2
  /\ BagCardinality(job.pending) = 2
  /\ job.output # EmptyBag

\* the candidate-mode mapper without its zero emissions
sc_mapper_omitting_zeros(task, line) ==
  SelectSeq(sc_mapper(task, line), LAMBDA pair : pair[2] # 0)

\* the job with that mapper
ItemsetSupportCounter_omitting_zeros(lines, options) ==
  LET task == sc_init(options)
      mapped == Shuffle(Flatten([i \in DOMAIN lines |->
                                   sc_mapper_omitting_zeros(task, lines[i])]))
      combined == Shuffle(Flatten([g \in DOMAIN mapped |->
                                     sc_combiner(mapped[g][1], mapped[g][2])]))
  IN  SeqToBag(Flatten([g \in DOMAIN combined |->
                          sc_reducer(task, combined[g][1], combined[g][2])]))

\* the counter ran in candidate mode
CounterRanOnCandidates ==
  job.kind = "counter" /\ job.step = 1 /\ job.requested

\* C27: for every min_support >= 1, every database and every candidate
\* file, the candidate-mode Support Counter, whose mapper emits (S, 0) for
\* a candidate S not contained in the transaction, writes exactly what it
\* writes when the mapper emits nothing for such a candidate.
C27_ZeroEmissionsChangeNothing ==
  CounterRanOnCandidates =>
    job.output = ItemsetSupportCounter_omitting_zeros(job.transactions, JobOptions)

\* a run with a candidate outside one of two transactions and a record
\* written
C27_Witness ==
  /\ CounterRanOnCandidates /\ job.min_support >= 1
  /\ Len(job.transactions) = 2
  /\ \E i \in DOMAIN job.transactions :
       /\ job.transactions[i].nfields = 2
       /\ \E c \in BagToSet(job.candidate_file.lines) :
            ~(Range(c) \subseteq Range(job.transactions[i].itemset))
  /\ job.output # EmptyBag

\* L: the largest number of distinct items of a transaction
LargestTransaction ==
  LET sizes == {Cardinality(Range(db[i].itemset)) : i \in DOMAIN db}
  IN  IF sizes = {} THEN 0 ELSE CHOOSE n \in sizes : \A m \in sizes : m <= n

\* the support-count jobs started so far
CountJobs == Cardinality({n \in DOMAIN job_log : job_log[n][1] = "count"})

\* no job started so far has failed
NoJobFailed == \A n \in DOMAIN job_log : ~Failed(job_log[n])

\* C28: for every database, every min_support >= 1 and every
\* max_iterations, a run in which no job fails reaches the final
\* consolidation, and it starts at most min(max_iterations, L + 1)
\* support-count jobs, L being the largest number of distinct items of a
\* transaction.
C28_DriverTerminates ==
  /\ <>(pc = "done" \/ ~NoJobFailed)
  /\ [](NoJobFailed =>
          /\ CountJobs <= max_iterations
          /\ CountJobs <= LargestTransaction + 1)

\* a finished run of L + 1 support-count jobs, below its cap
C28_Witness ==
  /\ pc = "done" /\ NoJobFailed
  /\ LargestTransaction >= 1
  /\ CountJobs = LargestTransaction + 1
  /\ CountJobs < max_iterations

\* the levels whose F_k the current run has written
LevelsOfThisRun ==
  {k \in Levels : \E n \in DOMAIN job_log :
                    job_log[n] = <<"count", k>> /\ ~Failed(job_log[n])}

\* C29: the final file consists exactly of the records of the per-level
\* files F_k written during the current run, whatever an earlier run left
\* in the frequent-itemsets directory, also without --clean.
C29_FinalFileIsOfThisRun ==
  pc = "done" =>
    BagSumSeq(final_file.blocks) =
      BagSumSeq([i \in DOMAIN SortSet(LevelsOfThisRun) |->
                   fi_file(SortSet(LevelsOfThisRun)[i]).lines])

\* C30: in candidate mode the count emitted for an itemset is the number of
\* transactions that contain it, however many lines of the candidate file
\* denote the itemset (a line repeated, or the same items in another order).
C30_CountIgnoresRepeatedCandidateLines ==
  CounterRanOnCandidates =>
    \A r \in BagToSet(job.output) :
      r.support = Containing(Range(r.itemset))

====
